---- MODULE Spec2Model ----
(***************************************************************************)
(* Model of mailingraf (raf.py): the churn filter pipeline                 *)
(* processar_dados_churn_com_motivos and the 'Criar Mailing' button        *)
(* handler of the Streamlit page.                                          *)
(*                                                                         *)
(* A DataFrame is a record [colunas, linhas]: the set of column names and  *)
(* the sequence of rows; a row is [idx, cel], its index label and the      *)
(* function from column name to cell.  A cell of a text column is a        *)
(* string.  A cell of the payer and of the date column is a tagged record  *)
(* [k, v], so that pd.to_numeric and pd.to_datetime are conversions:       *)
(*   "num" v     a number            "numstr" v  the text of the number v  *)
(*   "ts" v      a datetime, day v   "datestr" v the text of day v         *)
(*   "text"      any other text      "nan"/"nat" the missing markers       *)
(***************************************************************************)
EXTENDS Integers, Sequences, FiniteSets, TLC

VARIABLES uploaded_file, user_motivos, pagadores_str, fase, saida, saida2, tela

vars == <<uploaded_file, user_motivos, pagadores_str, fase, saida, saida2, tela>>

---------------------------------------------------------------------------
(* Bounds of the model *)

MaxLinhas == 2
MaxMotivos == 3
MaxPagadores == 2
Hoje == 100

(* timedelta(days=60) *)
DiasJanela == 60

---------------------------------------------------------------------------
(* Cells *)

Num(v) == [k |-> "num", v |-> v]
NumStr(v) == [k |-> "numstr", v |-> v]
Texto == [k |-> "text", v |-> 0]
NaN == [k |-> "nan", v |-> 0]
Ts(d) == [k |-> "ts", v |-> d]
DataStr(d) == [k |-> "datestr", v |-> d]
NaT == [k |-> "nat", v |-> 0]

(* pd.to_numeric(..., errors='coerce') on one cell *)
to_numeric(c) ==
  CASE c.k = "num" -> c
    [] c.k = "numstr" -> Num(c.v)
    [] OTHER -> NaN

(* pd.to_datetime(..., errors='coerce') on one cell *)
to_datetime(c) ==
  CASE c.k = "ts" -> c
    [] c.k = "datestr" -> Ts(c.v)
    [] OTHER -> NaT

(* Series.isin(list of int): a missing or non-numeric value is in no list *)
isin_numeros(c, numeros) == c.k = "num" /\ c.v \in numeros

(* str.strip() on the pieces of text the model uses *)
strip(s) ==
  CASE s = " " -> ""
    [] s = " A " -> "A"
    [] s = " 7 " -> "7"
    [] OTHER -> s

(* int(p): the texts int() accepts, with their values; any other raises ValueError *)
ValorInteiro == ("7" :> 7) @@ ("8" :> 8) @@ (" 7 " :> 7)
EhInteiro(p) == p \in DOMAIN ValorInteiro

---------------------------------------------------------------------------
(* DataFrames *)

ColPAGADOR == "PAGADOR"
ColPagador == "Pagador"
ColChurn == "Tipo de Churn"
ColForma == "FORMAJURIDICA"
ColData == "DATACRIACAOOS"
ColStatus == "STATUSINADIMPLENTE"
ColCategoria == "CATEGORIA4"
ColPrioridade == "Prioridade Motivo"

TabelaVazia == [colunas |-> {}, linhas |-> <<>>]

(* df[mascara]: the rows whose entry of the boolean mask is TRUE, in their order *)
Filtrar(df, mascara) ==
  LET manter == {i \in 1..Len(df.linhas) : mascara[i]}
  IN [df EXCEPT !.linhas =
        [j \in 1..Cardinality(manter) |->
           df.linhas[CHOOSE i \in manter : Cardinality({m \in manter : m <= i}) = j]]]

(* df[col] = pd.to_numeric(df[col], errors='coerce') *)
coluna_to_numeric(df, col) ==
  [df EXCEPT !.linhas =
     [i \in 1..Len(df.linhas) |->
        [df.linhas[i] EXCEPT !.cel[col] = to_numeric(df.linhas[i].cel[col])]]]

(* df[col] = pd.to_datetime(df[col], errors='coerce') *)
coluna_to_datetime(df, col) ==
  [df EXCEPT !.linhas =
     [i \in 1..Len(df.linhas) |->
        [df.linhas[i] EXCEPT !.cel[col] = to_datetime(df.linhas[i].cel[col])]]]

Indices(df) == {df.linhas[i].idx : i \in 1..Len(df.linhas)}

---------------------------------------------------------------------------
(* The warnings st.warning records *)

AvisoPagadorMinusculo == "coluna Pagador com P minusculo"
AvisoPagadoresNaoInteiros == "pagadores devem ser inteiros"
AvisoSemData == "DATACRIACAOOS nao encontrada"
AvisoSemStatus == "STATUSINADIMPLENTE nao encontrada"
AvisoSemCategoria == "CATEGORIA4 nao encontrada"

---------------------------------------------------------------------------
(* processar_dados_churn_com_motivos, step by step *)

Nenhuma == ""

(* the payer column the step uses: PAGADOR, else Pagador, else none *)
coluna_pagador(df) ==
  IF ColPAGADOR \in df.colunas THEN ColPAGADOR
  ELSE IF ColPagador \in df.colunas THEN ColPagador
  ELSE Nenhuma

(* [int(p) for p in pagadores_a_remover] *)
pagadores_a_remover_convertidos(pagadores_a_remover) ==
  {ValorInteiro[pagadores_a_remover[i]] : i \in 1..Len(pagadores_a_remover)}

(* tentar_remover_pagadores without pd.to_numeric: the raw cells are compared *)
tentar_remover_pagadores_sem_to_numeric(df, col, pagadores_a_remover) ==
  IF \E i \in 1..Len(pagadores_a_remover) : ~EhInteiro(pagadores_a_remover[i])
  THEN [df |-> df, avisos |-> {AvisoPagadoresNaoInteiros}]
  ELSE [df |-> Filtrar(df, [i \in 1..Len(df.linhas) |->
                  ~isin_numeros(df.linhas[i].cel[col],
                       pagadores_a_remover_convertidos(pagadores_a_remover))]),
        avisos |-> {}]

(* the body of the try: int() of every entry first (ValueError leaves df   *)
(* untouched), then the column made numeric, then the rows removed         *)
tentar_remover_pagadores(df, col, pagadores_a_remover) ==
  IF \E i \in 1..Len(pagadores_a_remover) : ~EhInteiro(pagadores_a_remover[i])
  THEN [df |-> df, avisos |-> {AvisoPagadoresNaoInteiros}]
  ELSE LET numerica == coluna_to_numeric(df, col)
           remover == pagadores_a_remover_convertidos(pagadores_a_remover)
       IN [df |-> Filtrar(numerica, [i \in 1..Len(numerica.linhas) |->
                     ~isin_numeros(numerica.linhas[i].cel[col], remover)]),
           avisos |-> {}]

(* step 1: the payer exclusion *)
remover_pagadores(df, pagadores_a_remover) ==
  IF pagadores_a_remover = <<>> THEN [df |-> df, avisos |-> {}]
  ELSE LET col == coluna_pagador(df)
           aviso == IF col = ColPagador THEN {AvisoPagadorMinusculo} ELSE {}
       IN IF col = Nenhuma THEN [df |-> df, avisos |-> {}]
          ELSE LET r == tentar_remover_pagadores(df, col, pagadores_a_remover)
               IN [df |-> r.df, avisos |-> aviso \cup r.avisos]

(* filtrar_churn comparing with the literal spelled without its accent *)
filtrar_churn_sem_acento(df) ==
  Filtrar(df, [i \in 1..Len(df.linhas) |-> df.linhas[i].cel[ColChurn] # "Involuntario"])

(* step 2: df[df['Tipo de Churn'] != 'Involuntário'] *)
filtrar_churn(df) ==
  Filtrar(df, [i \in 1..Len(df.linhas) |-> df.linhas[i].cel[ColChurn] # "Involuntário"])

(* step 3: df[df['FORMAJURIDICA'] != 'C1'] *)
filtrar_forma(df) ==
  Filtrar(df, [i \in 1..Len(df.linhas) |-> df.linhas[i].cel[ColForma] # "C1"])

(* limite_data one day too early *)
limite_data_um_dia_antes(data_atual) == data_atual - DiasJanela - 1

(* limite_data = data_atual - timedelta(days=60) *)
limite_data(data_atual) == data_atual - DiasJanela

(* step 4: the recency window *)
filtrar_data(df, data_atual) ==
  IF ColData \in df.colunas
  THEN LET convertida == coluna_to_datetime(df, ColData)
           validas == Filtrar(convertida, [i \in 1..Len(convertida.linhas) |->
                         convertida.linhas[i].cel[ColData].k = "ts"])
       IN [df |-> Filtrar(validas, [i \in 1..Len(validas.linhas) |->
                     validas.linhas[i].cel[ColData].v >= limite_data(data_atual)]),
           avisos |-> {}]
  ELSE [df |-> df, avisos |-> {AvisoSemData}]

(* step 5: the delinquency exclusion *)
filtrar_inadimplentes(df) ==
  IF ColStatus \in df.colunas
  THEN [df |-> Filtrar(df, [i \in 1..Len(df.linhas) |-> df.linhas[i].cel[ColStatus] # "I"]),
        avisos |-> {}]
  ELSE [df |-> df, avisos |-> {AvisoSemStatus}]

Elementos(s) == {s[i] : i \in 1..Len(s)}

(* {categoria: i + 1 for i, categoria in enumerate(categorias_permitidas)}: *)
(* a later entry of the same category overwrites the earlier one            *)
prioridade_map(categorias_permitidas) ==
  [c \in Elementos(categorias_permitidas) |->
     CHOOSE i \in 1..Len(categorias_permitidas) :
        /\ categorias_permitidas[i] = c
        /\ \A j \in (i + 1)..Len(categorias_permitidas) : categorias_permitidas[j] # c]

(* df[df['CATEGORIA4'].isin(categorias_permitidas)] *)
filtrar_categorias(df, categorias_permitidas) ==
  Filtrar(df, [i \in 1..Len(df.linhas) |->
                 df.linhas[i].cel[ColCategoria] \in Elementos(categorias_permitidas)])

(* df['Prioridade Motivo'] = df['CATEGORIA4'].map(prioridade_map) *)
atribuir_prioridade(df, categorias_permitidas) ==
  [colunas |-> df.colunas \cup {ColPrioridade},
   linhas |-> [i \in 1..Len(df.linhas) |->
      [df.linhas[i] EXCEPT !.cel =
         (ColPrioridade :> prioridade_map(categorias_permitidas)[df.linhas[i].cel[ColCategoria]])
         @@ df.linhas[i].cel]]]

(* the order of sort_values(by=[DATACRIACAOOS, Prioridade Motivo],          *)
(* ascending=[False, True]): a comes strictly before b                      *)
Antes(a, b) ==
  \/ a.cel[ColData].v > b.cel[ColData].v
  \/ /\ a.cel[ColData].v = b.cel[ColData].v
     /\ a.cel[ColPrioridade] < b.cel[ColPrioridade]

(* Inserir as an unstable sort would: x goes before the rows it ties with *)
Inserir_antes_dos_iguais(s, x) ==
  LET depois == {j \in 1..Len(s) : ~Antes(s[j], x)}
      pos == IF depois = {} THEN Len(s) + 1
             ELSE CHOOSE j \in depois : \A m \in depois : j <= m
  IN SubSeq(s, 1, pos - 1) \o <<x>> \o SubSeq(s, pos, Len(s))

(* x put into the sorted s after every row it does not come strictly before *)
Inserir(s, x) ==
  LET antes == {j \in 1..Len(s) : Antes(x, s[j])}
      pos == IF antes = {} THEN Len(s) + 1
             ELSE CHOOSE j \in antes : \A m \in antes : j <= m
  IN SubSeq(s, 1, pos - 1) \o <<x>> \o SubSeq(s, pos, Len(s))

RECURSIVE ordenar(_)
ordenar(s) ==
  IF s = <<>> THEN <<>>
  ELSE Inserir(ordenar(SubSeq(s, 1, Len(s) - 1)), s[Len(s)])

(* df.sort_values(...): a stable sort on more than one key *)
sort_values(df) == [df EXCEPT !.linhas = ordenar(df.linhas)]

(* df.drop(columns=['Prioridade Motivo']) *)
drop_prioridade(df) ==
  [colunas |-> df.colunas \ {ColPrioridade},
   linhas |-> [i \in 1..Len(df.linhas) |->
      [df.linhas[i] EXCEPT !.cel =
         [c \in (DOMAIN df.linhas[i].cel) \ {ColPrioridade} |-> df.linhas[i].cel[c]]]]]

Levantou(avisos) ==
  [status |-> "levantou", df |-> TabelaVazia, avisos |-> avisos, prioridades |-> <<>>]

Retornou(df, avisos, prioridades) ==
  [status |-> "retornou", df |-> df, avisos |-> avisos, prioridades |-> prioridades]

(* steps 1 to 5; erro is TRUE when df['Tipo de Churn'] or df['FORMAJURIDICA'] *)
(* raises KeyError                                                           *)
etapas_1_a_5(df, pagadores_a_remover, data_atual) ==
  LET p1 == remover_pagadores(df, pagadores_a_remover)
  IN IF ColChurn \notin p1.df.colunas \/ ColForma \notin p1.df.colunas
     THEN [erro |-> TRUE, df |-> TabelaVazia, avisos |-> p1.avisos]
     ELSE LET p4 == filtrar_data(filtrar_forma(filtrar_churn(p1.df)), data_atual)
              p5 == filtrar_inadimplentes(p4.df)
          IN [erro |-> FALSE, df |-> p5.df,
              avisos |-> p1.avisos \cup p4.avisos \cup p5.avisos]

(* step 6: the allow-list, the priority and the sort; sort_values raises    *)
(* KeyError when the table has no DATACRIACAOOS column                      *)
ordenar_por_categoria(df, avisos, categorias_permitidas) ==
  IF ColCategoria \in df.colunas
  THEN IF ColData \notin df.colunas THEN Levantou(avisos)
       ELSE LET ordenada ==
                  sort_values(atribuir_prioridade(
                      filtrar_categorias(df, categorias_permitidas), categorias_permitidas))
            IN Retornou(drop_prioridade(ordenada), avisos,
                        [i \in 1..Len(ordenada.linhas) |-> ordenada.linhas[i].cel[ColPrioridade]])
  ELSE Retornou(df, avisos \cup {AvisoSemCategoria}, <<>>)

processar_dados_churn_com_motivos(df, categorias_permitidas, pagadores_a_remover, data_atual) ==
  LET p5 == etapas_1_a_5(df, pagadores_a_remover, data_atual)
  IN IF p5.erro THEN Levantou(p5.avisos)
     ELSE ordenar_por_categoria(p5.df, p5.avisos, categorias_permitidas)

---------------------------------------------------------------------------
(* The 'Criar Mailing' button handler.  user_motivos is the text area as    *)
(* its lines (splitlines) and pagadores_str the text input as its pieces    *)
(* between commas (split(',')).                                             *)

MsgSemArquivo == "warning: faca o upload de um arquivo"
MsgErro == "error: erro ao ler ou processar a planilha"
MsgMotivosVazios == "warning: a lista de motivos nao pode estar vazia"
MsgSucesso == "success: processamento concluido"
MsgNenhumCaso == "warning: nenhum caso encontrado"
BotaoDownload == "download_button"
LinkEmail == "mailto link"

(* [x.strip() for x in pedacos if x.strip()] *)
aparar_nao_vazios(pedacos) ==
  LET NaoVazio(x) == x # ""
  IN SelectSeq([i \in 1..Len(pedacos) |-> strip(pedacos[i])], NaoVazio)

categorias_usuario(motivos) == aparar_nao_vazios(motivos)

pagadores_a_remover_de(pagadores) == aparar_nao_vazios(pagadores)

NaoExecutou ==
  [status |-> "nenhum", df |-> TabelaVazia, avisos |-> {}, prioridades |-> <<>>]

(* exibir_resultado without the test of num_casos *)
exibir_resultado_sem_teste(df_processado) == {MsgSucesso, BotaoDownload, LinkEmail}

(* what the handler shows for the table the pipeline returned *)
exibir_resultado(df_processado) ==
  IF Len(df_processado.linhas) > 0
  THEN {MsgSucesso, BotaoDownload, LinkEmail}
  ELSE {MsgSucesso, MsgNenhumCaso}

(* the handler: the pipeline's outcome and what is on the page after it *)
ao_clicar(arquivo, motivos, pagadores, data_atual) ==
  IF arquivo.tipo = "nenhum" THEN [saida |-> NaoExecutou, tela |-> {MsgSemArquivo}]
  ELSE IF arquivo.tipo = "ilegivel" THEN [saida |-> NaoExecutou, tela |-> {MsgErro}]
  ELSE IF categorias_usuario(motivos) = <<>>
       THEN [saida |-> NaoExecutou, tela |-> {MsgMotivosVazios}]
  ELSE LET r == processar_dados_churn_com_motivos(arquivo.df, categorias_usuario(motivos),
                    pagadores_a_remover_de(pagadores), data_atual)
       IN IF r.status = "levantou" THEN [saida |-> r, tela |-> {MsgErro}]
          ELSE [saida |-> r, tela |-> exibir_resultado(r.df)]

---------------------------------------------------------------------------
(* The inputs of the model: the uploaded file, the two text inputs *)

SemArquivo == [tipo |-> "nenhum", df |-> TabelaVazia]
ArquivoIlegivel == [tipo |-> "ilegivel", df |-> TabelaVazia]
Planilha(df) == [tipo |-> "planilha", df |-> df]

Obrigatorias == {ColChurn, ColForma}
Opcionais == {ColData, ColStatus, ColCategoria}
Completas == {ColPAGADOR} \cup Obrigatorias \cup Opcionais
TodasColunas == Completas \cup {ColPagador}

Limite == Hoje - DiasJanela

(* the rows over the columns cols whose cells are drawn from dom[column] *)
Celulas(cols, dom) ==
  {[c \in cols |-> f[c]] :
     f \in {(ColPAGADOR :> p) @@ (ColPagador :> q) @@ (ColChurn :> t) @@ (ColForma :> j)
            @@ (ColData :> d) @@ (ColStatus :> s) @@ (ColCategoria :> m) :
            p \in (IF ColPAGADOR \in cols THEN dom[ColPAGADOR] ELSE {NaN}),
            q \in (IF ColPagador \in cols THEN dom[ColPagador] ELSE {NaN}),
            t \in (IF ColChurn \in cols THEN dom[ColChurn] ELSE {""}),
            j \in (IF ColForma \in cols THEN dom[ColForma] ELSE {""}),
            d \in (IF ColData \in cols THEN dom[ColData] ELSE {NaT}),
            s \in (IF ColStatus \in cols THEN dom[ColStatus] ELSE {""}),
            m \in (IF ColCategoria \in cols THEN dom[ColCategoria] ELSE {""})}}

(* pd.read_excel: the tables of at most MaxLinhas rows, indexed 0, 1, ... *)
Tabelas(cols, celulas) ==
  UNION {{[colunas |-> cols, linhas |-> [i \in 1..n |-> [idx |-> i - 1, cel |-> f[i]]]] :
            f \in [1..n -> celulas]} : n \in 0..MaxLinhas}

SeqAte(S, min, max) == UNION {[1..n -> S] : n \in min..max}

(* a row every step keeps *)
Neutro ==
  (ColPAGADOR :> {Num(8)}) @@ (ColPagador :> {Num(8)}) @@ (ColChurn :> {"Voluntário"})
  @@ (ColForma :> {"C2"}) @@ (ColData :> {Ts(Hoje)}) @@ (ColStatus :> {"A"})
  @@ (ColCategoria :> {"A"})

(* for each column, a value its step removes the row for *)
Removido ==
  (ColPAGADOR :> {Num(7)}) @@ (ColPagador :> {Num(7)}) @@ (ColChurn :> {"Involuntário"})
  @@ (ColForma :> {"C1"}) @@ (ColData :> {Ts(Limite - 1)}) @@ (ColStatus :> {"I"})
  @@ (ColCategoria :> {"B"})

(* the payer cells and the excluded-payer texts vary, over every spelling of *)
(* the payer column                                                         *)
InitPagadores ==
  /\ \E cols \in {Completas, Completas \ {ColPAGADOR},
                  (Completas \ {ColPAGADOR}) \cup {ColPagador}, TodasColunas} :
       uploaded_file \in {Planilha(df) : df \in Tabelas(cols, Celulas(cols,
          [Neutro EXCEPT ![ColPAGADOR] = {Num(7), NumStr(7), Num(8), Texto},
                         ![ColPagador] = IF ColPAGADOR \in cols THEN {Num(7)}
                                         ELSE {Num(7), NumStr(7), Num(8), Texto},
                         ![ColChurn] = {"Voluntário", "Involuntário"}]))}
  /\ user_motivos = <<"A">>
  /\ pagadores_str \in {<<"">>} \cup SeqAte({"7", "8", "abc"}, 1, MaxPagadores)

(* the dates, the categories and the allow-list vary *)
InitDatas ==
  /\ uploaded_file \in {Planilha(df) : df \in Tabelas(Completas, Celulas(Completas,
        [Neutro EXCEPT ![ColData] = {Ts(Limite - 1), Ts(Limite), DataStr(Limite + 1), Texto, NaT},
                       ![ColCategoria] = {"A", "B", "C"}]))}
  /\ user_motivos \in SeqAte({"A", "B"}, 1, MaxMotivos)
  /\ pagadores_str = <<"">>

(* the columns present vary, over rows with at most one removed value *)
InitColunas ==
  /\ \E cols \in SUBSET TodasColunas :
       uploaded_file \in {Planilha(df) : df \in Tabelas(cols,
          Celulas(cols, Neutro) \cup UNION {Celulas(cols, [Neutro EXCEPT ![c] = Removido[c]]) :
                                              c \in cols})}
  /\ user_motivos = <<"A">>
  /\ pagadores_str \in {<<"">>, <<"7">>}

(* payer cells, dates and categories vary together *)
InitMisto ==
  /\ uploaded_file \in {Planilha(df) : df \in Tabelas(Completas, Celulas(Completas,
        [Neutro EXCEPT ![ColPAGADOR] = {Num(7), Texto},
                       ![ColData] = {Ts(Limite), DataStr(Limite + 1), Texto},
                       ![ColCategoria] = {"A", "B"}]))}
  /\ user_motivos \in SeqAte({"A", "B"}, 1, MaxMotivos)
  /\ pagadores_str \in {<<"7">>, <<"abc">>}

(* the file and the raw texts of the page vary *)
InitPagina ==
  /\ uploaded_file \in {SemArquivo, ArquivoIlegivel} \cup
        {Planilha(df) : df \in Tabelas(Completas, Celulas(Completas,
            [Neutro EXCEPT ![ColChurn] = {"Voluntário", "Involuntário"}]))}
  /\ user_motivos \in SeqAte({" ", " A ", "B"}, 0, MaxMotivos)
  /\ pagadores_str \in SeqAte({" ", " 7 "}, 1, MaxPagadores)

Init ==
  /\ \/ InitPagadores
     \/ InitDatas
     \/ InitColunas
     \/ InitMisto
     \/ InitPagina
  /\ fase = "pronto"
  /\ saida = NaoExecutou
  /\ saida2 = NaoExecutou
  /\ tela = {}

(* a click on 'Criar Mailing' *)
CriarMailing ==
  /\ fase = "pronto"
  /\ LET r == ao_clicar(uploaded_file, user_motivos, pagadores_str, Hoje)
     IN /\ saida' = r.saida
        /\ tela' = r.tela
  /\ fase' = "processado"
  /\ UNCHANGED <<uploaded_file, user_motivos, pagadores_str, saida2>>

(* the pipeline run again on the table it returned, same parameters, same clock *)
Reprocessar ==
  /\ fase = "processado"
  /\ saida.status = "retornou"
  /\ saida2' = processar_dados_churn_com_motivos(saida.df, categorias_usuario(user_motivos),
                  pagadores_a_remover_de(pagadores_str), Hoje)
  /\ fase' = "reprocessado"
  /\ UNCHANGED <<uploaded_file, user_motivos, pagadores_str, saida, tela>>

Next == CriarMailing \/ Reprocessar

Spec == Init /\ [][Next]_vars

---------------------------------------------------------------------------
(* The properties *)

Entrada == uploaded_file.df
Categorias == categorias_usuario(user_motivos)
Pagadores == pagadores_a_remover_de(pagadores_str)
Retornado == saida.df
Executou == saida.status # "nenhum"
Voltou == saida.status = "retornou"
NumLinhas == Len(Retornado.linhas)

(* the 1-based position of c in the list: that of its first occurrence *)
Posicao(lista, c) ==
  CHOOSE i \in 1..Len(lista) : lista[i] = c /\ \A j \in 1..(i - 1) : lista[j] # c

(* the input row with index label idx *)
LinhaDeEntrada(idx) == Entrada.linhas[idx + 1]

AlgumNaoInteiro == \E i \in 1..Len(Pagadores) : ~EhInteiro(Pagadores[i])

(* the table the pipeline returns for the same input with no excluded payer *)
SemPagadores == processar_dados_churn_com_motivos(Entrada, Categorias, <<>>, Hoje)

(* C1: when the input has the DATACRIACAOOS and CATEGORIA4 columns, the    *)
(* returned table is sorted: adjacent rows have date[i] >= date[i+1] and,   *)
(* on equal dates, the position of category[i] in the allow-list is at     *)
(* most that of category[i+1].                                             *)
C1_SaidaOrdenada ==
  (Voltou /\ ColData \in Entrada.colunas /\ ColCategoria \in Entrada.colunas) =>
    \A i \in 1..(NumLinhas - 1) :
      LET a == Retornado.linhas[i].cel
          b == Retornado.linhas[i + 1].cel
      IN /\ a[ColData].v >= b[ColData].v
         /\ a[ColData].v = b[ColData].v =>
              Posicao(Categorias, a[ColCategoria]) <= Posicao(Categorias, b[ColCategoria])

(* C2: when optional columns (DATACRIACAOOS, STATUSINADIMPLENTE,           *)
(* CATEGORIA4) are absent, in any combination, and the mandatory ones are   *)
(* present, the pipeline returns: a warning is recorded for each absent     *)
(* column and the steps of the present columns are applied.                 *)
C2_ColunasOpcionaisAusentes ==
  (Executou /\ Obrigatorias \subseteq Entrada.colunas) =>
    /\ Voltou
    /\ (ColData \notin Entrada.colunas) <=> (AvisoSemData \in saida.avisos)
    /\ (ColStatus \notin Entrada.colunas) <=> (AvisoSemStatus \in saida.avisos)
    /\ (ColCategoria \notin Entrada.colunas) <=> (AvisoSemCategoria \in saida.avisos)
    /\ \A i \in 1..NumLinhas :
         LET c == Retornado.linhas[i].cel
         IN /\ ColData \in Entrada.colunas =>
                 c[ColData].k = "ts" /\ c[ColData].v >= Hoje - DiasJanela
            /\ ColStatus \in Entrada.colunas => c[ColStatus] # "I"
            /\ ColCategoria \in Entrada.colunas => c[ColCategoria] \in Elementos(Categorias)

(* C3: when an entry of excluded_payers is not an integer, the payer step  *)
(* is inert: a warning is recorded, no row is removed for its payer and no  *)
(* payer cell is altered, so the outcome and the returned table are those   *)
(* of an empty excluded_payers list.                                        *)
C3_AvisoSempre ==
  (Executou /\ AlgumNaoInteiro) =>
    /\ AvisoPagadoresNaoInteiros \in saida.avisos
    /\ saida.status = SemPagadores.status
    /\ saida.df = SemPagadores.df
    /\ \A i \in 1..NumLinhas : \A c \in {ColPAGADOR, ColPagador} \cap Entrada.colunas :
         Retornado.linhas[i].cel[c] = LinhaDeEntrada(Retornado.linhas[i].idx).cel[c]

(* C4: when excluded_payers is non-empty, all integers, and the table has  *)
(* a payer column, no returned row has an excluded payer value; the         *)
(* non-numeric payer cells have become the null marker and their rows are   *)
(* returned exactly when they are with no excluded payer.                   *)
C4_PagadoresRemovidos ==
  (Voltou /\ Pagadores # <<>> /\ ~AlgumNaoInteiro /\ coluna_pagador(Entrada) # Nenhuma) =>
    LET col == coluna_pagador(Entrada)
        remover == pagadores_a_remover_convertidos(Pagadores)
    IN /\ \A i \in 1..NumLinhas :
            /\ ~isin_numeros(to_numeric(Retornado.linhas[i].cel[col]), remover)
            /\ Retornado.linhas[i].cel[col] =
                   to_numeric(LinhaDeEntrada(Retornado.linhas[i].idx).cel[col])
       /\ \A j \in 1..Len(Entrada.linhas) :
            to_numeric(Entrada.linhas[j].cel[col]) = NaN =>
               (Entrada.linhas[j].idx \in Indices(Retornado)
                  <=> Entrada.linhas[j].idx \in Indices(SemPagadores.df))

(* a row with an excluded payer written as text is removed, and a row with  *)
(* a non-numeric payer is returned with the null marker                     *)
C4_Witness ==
  /\ Voltou /\ Pagadores # <<>> /\ ~AlgumNaoInteiro
  /\ coluna_pagador(Entrada) # Nenhuma
  /\ \E j \in 1..Len(Entrada.linhas) :
       /\ Entrada.linhas[j].cel[coluna_pagador(Entrada)] = NumStr(7)
       /\ 7 \in pagadores_a_remover_convertidos(Pagadores)
       /\ Entrada.linhas[j].idx \notin Indices(Retornado)
  /\ \E i \in 1..NumLinhas :
       /\ Retornado.linhas[i].cel[coluna_pagador(Entrada)] = NaN
       /\ LinhaDeEntrada(Retornado.linhas[i].idx).cel[coluna_pagador(Entrada)] = Texto

(* C5: with the clock held fixed, the pipeline run again on the table it   *)
(* returned, with the same parameters, returns that table: same rows, same  *)
(* cells, same order.                                                       *)
C5_Idempotente ==
  fase = "reprocessado" => saida2.status = "retornou" /\ saida2.df = saida.df

(* the first run changed the table and returned two rows that tie on date   *)
(* and priority                                                             *)
C5_Witness ==
  /\ fase = "reprocessado"
  /\ NumLinhas >= 2
  /\ Retornado.linhas # Entrada.linhas
  /\ ColData \in Entrada.colunas /\ ColCategoria \in Entrada.colunas
  /\ \E i \in 1..(NumLinhas - 1) :
       /\ Retornado.linhas[i].cel[ColData] = Retornado.linhas[i + 1].cel[ColData]
       /\ Retornado.linhas[i].cel[ColCategoria] = Retornado.linhas[i + 1].cel[ColCategoria]

(* C6: after the click, the download button and the e-mail link are on the *)
(* page only if a file was uploaded, the allow-list is not empty, the       *)
(* pipeline returned (so both mandatory columns exist) and it returned at   *)
(* least one row; with zero rows the page shows the 'no cases' warning, no  *)
(* artifact and no error message, and a failure shows the error message     *)
(* and not the 'no cases' warning.                                          *)
C6_ArtefatoSoComCasos ==
  fase # "pronto" =>
    /\ (BotaoDownload \in tela \/ LinkEmail \in tela) =>
         /\ uploaded_file.tipo = "planilha"
         /\ Categorias # <<>>
         /\ Voltou
         /\ Obrigatorias \subseteq Entrada.colunas
         /\ NumLinhas > 0
    /\ (Voltou /\ NumLinhas = 0) =>
         /\ MsgNenhumCaso \in tela
         /\ tela \cap {BotaoDownload, LinkEmail, MsgErro} = {}
    /\ (saida.status = "levantou" \/ uploaded_file.tipo = "ilegivel") =>
         /\ MsgErro \in tela
         /\ tela \cap {BotaoDownload, LinkEmail, MsgNenhumCaso} = {}

(* a table with rows of which none survives *)
C6_Witness ==
  /\ fase = "processado"
  /\ Voltou
  /\ Len(Entrada.linhas) > 0
  /\ NumLinhas = 0
  /\ MsgNenhumCaso \in tela

(* C7: when the input has the DATACRIACAOOS column, every returned row has *)
(* a parsed, non-null creation date d >= now - 60 days, and no row whose    *)
(* date cannot be parsed is returned.                                       *)
C7_JanelaDeDatas ==
  (Voltou /\ ColData \in Entrada.colunas) =>
    /\ \A i \in 1..NumLinhas :
         /\ Retornado.linhas[i].cel[ColData].k = "ts"
         /\ Retornado.linhas[i].cel[ColData].v >= Hoje - DiasJanela
    /\ \A j \in 1..Len(Entrada.linhas) :
         to_datetime(Entrada.linhas[j].cel[ColData]) = NaT =>
            Entrada.linhas[j].idx \notin Indices(Retornado)

(* a row dated exactly now - 60 days is returned; the other row, with an    *)
(* unparseable date or one a day older, is not                              *)
C7_Witness ==
  /\ Voltou /\ ColData \in Entrada.colunas
  /\ NumLinhas = 1
  /\ Retornado.linhas[1].cel[ColData] = Ts(Hoje - DiasJanela)
  /\ \E j \in 1..Len(Entrada.linhas) :
       Entrada.linhas[j].cel[ColData] \in {Texto, Ts(Hoje - DiasJanela - 1)}

(* C8: no returned row has churn type "Involuntário" and none has legal    *)
(* form "C1", whatever the parameters and the optional columns present.     *)
C8_SemInvoluntarioNemC1 ==
  Voltou =>
    \A i \in 1..NumLinhas :
      /\ Retornado.linhas[i].cel[ColChurn] # "Involuntário"
      /\ Retornado.linhas[i].cel[ColForma] # "C1"

(* an input with an involuntary row and a C1 row, and optional columns      *)
(* missing                                                                  *)
C8_Witness ==
  /\ Voltou
  /\ ~(Opcionais \subseteq Entrada.colunas)
  /\ \E j \in 1..Len(Entrada.linhas) : Entrada.linhas[j].cel[ColChurn] = "Involuntário"
  /\ \E j \in 1..Len(Entrada.linhas) : Entrada.linhas[j].cel[ColForma] = "C1"

(* C9: when the input has the CATEGORIA4 column, every returned row has a  *)
(* category of the allow-list, and every row that passes steps 1 to 5 with  *)
(* a category of the allow-list is in the returned table.                   *)
C9_SoCategoriasPermitidas ==
  (Executou /\ ColCategoria \in Entrada.colunas) =>
    LET antes == etapas_1_a_5(Entrada, Pagadores, Hoje).df
    IN /\ \A i \in 1..NumLinhas :
            Retornado.linhas[i].cel[ColCategoria] \in Elementos(Categorias)
       /\ \A j \in 1..Len(antes.linhas) :
            antes.linhas[j].cel[ColCategoria] \in Elementos(Categorias) =>
               (Voltou /\ antes.linhas[j].idx \in Indices(Retornado))

(* C10: the priority given to each returned row is the 1-based position of *)
(* its category in the allow-list, that of the first occurrence when the    *)
(* category is listed more than once.                                       *)
C10_PrioridadeEhPosicao ==
  (Voltou /\ ColCategoria \in Entrada.colunas) =>
    \A i \in 1..NumLinhas :
      saida.prioridades[i] = Posicao(Categorias, Retornado.linhas[i].cel[ColCategoria])

====
